---- MODULE Spec2Model ----
(***************************************************************************)
(* A model of the feboy Game Boy core: the instruction schema              *)
(* (src/src/instruction.rs), the register file (src/src/register.rs) and   *)
(* the memory bus with its machine-cycle tick (src/src/memory_map.rs).     *)
(*                                                                         *)
(* Four specifications share the module's variables:                       *)
(*   SpecSchema  the pure functions Command::size and Command::cycles      *)
(*   SpecReg     the register file                                         *)
(*   SpecBus     the memory bus, its tick and the OAM DMA                  *)
(*   SpecMap     the memory bus over one address of every region           *)
(* Each keeps the variables of the other components at their initial       *)
(* values.                                                                 *)
(***************************************************************************)
EXTENDS Integers, Sequences, FiniteSets, TLC

VARIABLES
    \* ---- instruction schema ----
    cmd,            \* the Command under query
    size_res,       \* outcome of the last Command::size(cmd)
    cycles_res,     \* outcome of Command::cycles(cmd, branch), per branch argument
    \* ---- register file (struct Register) ----
    registers,      \* [0..6 -> u8], indexed by RegisterId as usize
    flags,          \* FlagRegister: [z, n, h, c]
    sp,             \* WordRegister stored in field sp: [tag, n]
    pc,             \* WordRegister stored in field pc: [tag, n]
    swr,            \* position inside set_word_register_with_callback
    cb_calls,       \* how often the running pair write has invoked its callback
    last,           \* the register-file operation that completed last
    \* ---- memory bus (struct MemoryMap and the PPU it owns) ----
    memory,         \* flat backing array, on the sampled addresses
    rom_size,
    cycles,         \* MemoryMap::cycles, u16
    dma_progress,   \* MemoryMap::dma_progress
    ppu,            \* the PPU fields the bus uses: dma, dma_offset, dma_progress, oam, regs
    timer,          \* the timer's registers
    joypad,         \* the joypad latch P1
    interrupt_handler, \* the interrupt controller: pending requests and IE
    panicked,       \* the bus call aborted (overflow check of a debug build)
    calls,          \* completed MemoryMap::read / MemoryMap::write calls
    cycles0,        \* the counter's value when counting of calls began
    dma_track,      \* the DMA transfer under observation
    access          \* the bus call made last: entry point, arguments, result

schema_vars == <<cmd, size_res, cycles_res>>
reg_vars    == <<registers, flags, sp, pc, swr, cb_calls, last>>
bus_vars    == <<memory, rom_size, cycles, dma_progress, ppu, timer, joypad,
                 interrupt_handler, panicked, calls, cycles0, dma_track, access>>
vars        == <<schema_vars, reg_vars, bus_vars>>

U8  == 256
U16 == 65536

(***************************************************************************)
(* RegisterId, src/src/register.rs:8-16; the value is `id as usize`.       *)
(***************************************************************************)
RegA == 0
RegB == 1
RegC == 2
RegD == 3
RegE == 4
RegH == 5
RegL == 6
RegisterId == {RegA, RegB, RegC, RegD, RegE, RegH, RegL}

ConditionCode == {"Z", "NZ", "C", "NC"}

(***************************************************************************)
(*                      INSTRUCTION SCHEMA                                 *)
(* A Command is the record [op, arg, small, cc, imm]: op the variant's     *)
(* name, arg its InstructionOperand (NoOperand when it has none), small    *)
(* the bool of the rotates, cc the ConditionCode ("-" when it has none)    *)
(* and imm its numeric payload (immediate, register id, bit or vector).    *)
(***************************************************************************)
OpRegister(id) == [kind |-> "reg",  val |-> id]
OpByte(n)      == [kind |-> "byte", val |-> n]
OpHL           == [kind |-> "hl",   val |-> 0]
NoOperand      == [kind |-> "none", val |-> 0]

ByteSample == {0, 255}
InstructionOperand ==
    {OpRegister(id) : id \in RegisterId} \cup {OpByte(n) : n \in ByteSample} \cup {OpHL}

RstVec == {0, 8, 16, 24, 32, 40, 48, 56}
BitSample == {0, 7}
ImmSample == {5, 4660}

AluOps    == {"ADC_A", "ADD_A", "AND_A", "CP_A", "OR_A", "SBC_A", "SUB_A", "XOR_A"}
ShiftOps  == {"SLA", "SRA", "SRL"}
RotateOps == {"RL", "RLC", "RR", "RRC"}
CondOps   == {"CALL_CC_U16", "JP_CC_U16", "JR_CC_I8", "RET_CC"}
PlainOps  == {"CCF", "CPL", "DAA", "DECH_HL", "DI", "EI", "HALT", "INCH_HL", "JP_HL",
              "LDH_A_C", "LDH_C_A", "LD_A_HLD", "LD_A_HLI", "LD_HLD_A", "LD_HLI_A",
              "LD_SP_HL", "NOP", "PUSH_AF", "RET", "RETI", "SCF", "STOP", "SWAP_HL"}
ImmOps    == {"ADD_SP_I8", "JR_I8", "LD_HL_SP_I8", "CALL_U16", "JP_U16", "LDH_A_U16",
              "LDH_U16_A", "LD_U16_SP", "LDH_A_U8", "LDH_HL_U8", "LDH_U8_A", "LD_A_U8",
              "LD_R16_U16", "LD_R8_U8"}
RegOps    == {"ADD_HL_R16", "DEC_R16", "INC_R16", "LD_A_R16", "LD_R16_A", "POP_R16",
              "PUSH_R16", "DEC_R8", "INC_R8", "LD_HL_R8", "LD_R8_HL", "SWAP_R8",
              "LD_R8_R8"}
BitOps    == {"RES_U3_HL", "SET_U3_HL", "RES_U3_R8", "SET_U3_R8"}

Cmd(op, arg, small, cc, imm) ==
    [op |-> op, arg |-> arg, small |-> small, cc |-> cc, imm |-> imm]

\* Every value of enum Command, the payloads drawn from the samples above.
Command ==
    {Cmd(op, n, FALSE, "-", 0) : op \in AluOps \cup ShiftOps, n \in InstructionOperand}
    \cup {Cmd("BIT_U3", n, FALSE, "-", b) : n \in InstructionOperand, b \in BitSample}
    \cup {Cmd(op, n, s, "-", 0) : op \in RotateOps, n \in InstructionOperand, s \in BOOLEAN}
    \cup {Cmd(op, NoOperand, FALSE, c, i) : op \in CondOps, c \in ConditionCode, i \in ImmSample}
    \cup {Cmd(op, NoOperand, FALSE, "-", 0) : op \in PlainOps}
    \cup {Cmd(op, NoOperand, FALSE, "-", i) : op \in ImmOps, i \in ImmSample}
    \cup {Cmd(op, NoOperand, FALSE, "-", r) : op \in RegOps, r \in {RegB, RegL}}
    \cup {Cmd(op, NoOperand, FALSE, "-", b) : op \in BitOps, b \in BitSample}
    \cup {Cmd("RST", NoOperand, FALSE, "-", v) : v \in RstVec}

Ok(n)      == [st |-> "ok", val |-> n]
Panic      == [st |-> "panic", val |-> 0]
NotQueried == [st |-> "none", val |-> 0]

\* The arms of Command::size that return 2 and 3 (instruction.rs:110-116).
Size2Ops == {"LD_A_U8", "BIT_U3", "RES_U3_R8", "RES_U3_HL", "SET_U3_R8", "SET_U3_HL",
             "SWAP_R8", "SWAP_HL", "SLA", "SRA", "SRL", "LD_R8_U8", "JR_I8", "JR_CC_I8",
             "LDH_A_U8", "LDH_U8_A", "ADD_SP_I8", "LD_HL_SP_I8", "LDH_HL_U8"}
Size3Ops == {"LDH_U16_A", "LDH_A_U16", "LD_R16_U16", "CALL_U16", "CALL_CC_U16",
             "JP_U16", "JP_CC_U16", "LD_U16_SP"}

\* Command::size with the two-byte arm given as a parameter.
SizeMatch(c, two) ==
    IF c.op \in AluOps THEN
        (IF c.arg.kind \in {"reg", "hl"} THEN Ok(1) ELSE Ok(2))
    ELSE IF c.op \in RotateOps THEN
        (IF c.arg = OpRegister(RegA) /\ c.small THEN Ok(1)
         ELSE IF ~c.small THEN Ok(2)
         ELSE Panic)
    ELSE IF c.op \in two THEN Ok(2)
    ELSE IF c.op \in Size3Ops THEN Ok(3)
    ELSE Ok(1)

\* Mutant: LD A,u8 dropped from the two-byte arm, so it falls to `_ => 1`.
Command_size_dropped_arm(c) == SizeMatch(c, Size2Ops \ {"LD_A_U8"})

Command_size(c) == SizeMatch(c, Size2Ops)

Cycles1Ops == {"DAA", "CPL", "SCF", "CCF", "HALT", "DI", "EI", "JP_HL", "INC_R8", "DEC_R8",
               "LD_R8_R8", "NOP", "STOP"}
Cycles2Ops == {"INC_R16", "LD_SP_HL", "LD_R8_U8", "LD_HL_R8", "LD_A_U8", "ADD_HL_R16",
               "LD_A_R16", "DEC_R16", "LDH_C_A", "LDH_A_C", "LD_R8_HL", "LD_R16_A",
               "LD_A_HLD", "LD_A_HLI", "LD_HLD_A", "LD_HLI_A", "SWAP_R8", "SET_U3_R8",
               "RES_U3_R8"}
Cycles3Ops == {"POP_R16", "JR_I8", "LDH_U8_A", "DECH_HL", "INCH_HL", "LDH_HL_U8",
               "LD_HL_SP_I8", "LDH_A_U8", "LD_R16_U16"}
Cycles4Ops == {"LDH_U16_A", "PUSH_AF", "RETI", "RET", "JP_U16", "PUSH_R16", "ADD_SP_I8",
               "RST", "LDH_A_U16", "SWAP_HL", "RES_U3_HL", "SET_U3_HL"}

\* Command::cycles with the untaken cost of RET cc given as a parameter.
CyclesMatch(c, branch, ret_untaken) ==
    IF c.op \in AluOps THEN
        (IF c.arg.kind = "reg" THEN Ok(1) ELSE Ok(2))
    ELSE IF c.op = "BIT_U3" THEN
        (IF c.arg.kind = "reg" THEN Ok(2) ELSE IF c.arg.kind = "hl" THEN Ok(3) ELSE Panic)
    ELSE IF c.op \in Cycles1Ops THEN Ok(1)
    ELSE IF c.op \in ShiftOps THEN
        (IF c.arg.kind = "reg" THEN Ok(2) ELSE IF c.arg.kind = "hl" THEN Ok(4) ELSE Panic)
    ELSE IF c.op \in RotateOps THEN
        (IF c.arg = OpRegister(RegA) /\ c.small THEN Ok(1)
         ELSE IF c.arg.kind = "reg" /\ ~c.small THEN Ok(2)
         ELSE IF c.arg.kind = "hl" /\ ~c.small THEN Ok(4)
         ELSE Panic)
    ELSE IF c.op \in Cycles2Ops THEN Ok(2)
    ELSE IF c.op \in Cycles3Ops THEN Ok(3)
    ELSE IF c.op \in Cycles4Ops THEN Ok(4)
    ELSE IF c.op = "LD_U16_SP" THEN Ok(5)
    ELSE IF c.op = "CALL_U16" THEN Ok(6)
    ELSE IF c.op = "JR_CC_I8" THEN (IF branch THEN Ok(3) ELSE Ok(2))
    ELSE IF c.op = "JP_CC_U16" THEN (IF branch THEN Ok(4) ELSE Ok(3))
    ELSE IF c.op = "RET_CC" THEN (IF branch THEN Ok(5) ELSE Ok(ret_untaken))
    ELSE (IF branch THEN Ok(6) ELSE Ok(3))      \* CALL_CC_U16, the last arm

\* Mutant: RET cc untaken charged like JP cc untaken.
Command_cycles_ret_untaken3(c, branch) == CyclesMatch(c, branch, 3)

Command_cycles(c, branch) == CyclesMatch(c, branch, 2)

(***************************************************************************)
(*                          REGISTER FILE                                  *)
(***************************************************************************)
Lo(v) == v % U8            \* value.to_le_bytes()[0]
Hi(v) == (v \div U8) % U8  \* value.to_le_bytes()[1]

\* `mask & v != 0` (equally `v & mask == mask`) for a mask of one bit.
BitSet(v, mask) == (v \div mask) % 2 = 1

Flags(z, n, h, c) == [z |-> z, n |-> n, h |-> h, c |-> c]
FlagRegister == [z : BOOLEAN, n : BOOLEAN, h : BOOLEAN, c : BOOLEAN]

B2N(b) == IF b THEN 1 ELSE 0

\* FlagRegister::value: [c, h, n, z] enumerated, bit i shifted to i + 4.
FlagRegister_value(f) == B2N(f.c) * 16 + B2N(f.h) * 32 + B2N(f.n) * 64 + B2N(f.z) * 128

\* FlagRegister::set
FlagRegister_set(v) == Flags(BitSet(v, 128), BitSet(v, 64), BitSet(v, 32), BitSet(v, 16))

\* Register::set_flag: c is taken from 0x20 and h from 0x10.
set_flag(flag) ==
    LET fl == flag - (flag % 16)       \* flag & 0xF0
    IN  [z |-> BitSet(fl, 128), n |-> BitSet(fl, 64), c |-> BitSet(fl, 32), h |-> BitSet(fl, 16)]

\* Register::set_flags
set_flags(z, n, h, c) == Flags(z, n, h, c)

\* struct ByteRegister and the four variants of enum WordRegister.
ByteRegister(v, id) == [value |-> v, id |-> id]
NoByte  == ByteRegister(0, RegA)
NoFlags == Flags(FALSE, FALSE, FALSE, FALSE)
Double(a, b)      == [tag |-> "Double", a |-> a, b |-> b, f |-> NoFlags, n |-> 0]
AccFlag(a, f)     == [tag |-> "AccFlag", a |-> a, b |-> NoByte, f |-> f, n |-> 0]
StackPointer(n)   == [tag |-> "StackPointer", a |-> NoByte, b |-> NoByte, f |-> NoFlags, n |-> n]
ProgramCounter(n) == [tag |-> "ProgramCounter", a |-> NoByte, b |-> NoByte, f |-> NoFlags, n |-> n]

\* The register file as one value.
RegFile(r, f, s, p) == [registers |-> r, flags |-> f, sp |-> s, pc |-> p]
Now == RegFile(registers, flags, sp, pc)

\* Index<RegisterId> for Register
Index(rf, id) == ByteRegister(rf.registers[id], id)

af(rf) == AccFlag(Index(rf, RegA), rf.flags)
bc(rf) == Double(Index(rf, RegB), Index(rf, RegC))
de(rf) == Double(Index(rf, RegD), Index(rf, RegE))
hl(rf) == Double(Index(rf, RegH), Index(rf, RegL))

\* WordRegister::value with the AccFlag arm's flag byte given as a parameter.
bit_flag(b, v) == (2 ^ v) * B2N(b)
FlagByteOfValue(f) == bit_flag(f.z, 3) + bit_flag(f.n, 2) + bit_flag(f.h, 1) + bit_flag(f.c, 0)

WordRegister_value(w) ==
    IF w.tag = "Double" THEN w.b.value + U8 * w.a.value
    ELSE IF w.tag = "AccFlag" THEN FlagByteOfValue(w.f) + U8 * w.a.value
    ELSE w.n

\* Register::new
NewRegisters ==
    (RegA :> 1) @@ (RegB :> 0) @@ (RegC :> 19) @@ (RegD :> 0) @@ (RegE :> 216)
    @@ (RegH :> 1) @@ (RegL :> 77)
Register_new ==
    RegFile(NewRegisters, Flags(TRUE, FALSE, TRUE, TRUE), StackPointer(65534),
            ProgramCounter(256))

\* How a caller names a word register: the four pair accessors and the two
\* public fields, each read from the register file as it is at the call.
WordNames == {"AF", "BC", "DE", "HL", "SP", "PC"}
Handle(rf, name) ==
    IF name = "AF" THEN af(rf)
    ELSE IF name = "BC" THEN bc(rf)
    ELSE IF name = "DE" THEN de(rf)
    ELSE IF name = "HL" THEN hl(rf)
    ELSE IF name = "SP" THEN rf.sp
    ELSE rf.pc

\* The read of a named word register: af().value(), ..., sp.value(), pc.value().
Read(rf, name) == WordRegister_value(Handle(rf, name))

\* The body of set_word_register_with_callback after `let [lo, hi] = ...`:
\* the statements of the arm `match reg` selects, in program order.
SwrProgramAs(tag, double_arm) ==
    IF tag = "AccFlag" THEN <<"set_flag_lo", "callback", "a_hi">>
    ELSE IF tag = "Double" THEN double_arm
    ELSE IF tag = "StackPointer" THEN <<"sp_word", "callback">>
    ELSE <<"pc_word", "callback">>

\* Mutant: the Double arm invokes the callback before it stores the low byte.
SwrProgram_callback_first(tag) == SwrProgramAs(tag, <<"callback", "lo", "hi">>)

SwrProgram(tag) == SwrProgramAs(tag, <<"lo", "callback", "hi">>)

\* One store statement of an arm, applied to the register file rf.
SwrStore(rf, stmt, reg, value) ==
    IF stmt = "set_flag_lo" THEN [rf EXCEPT !.flags = set_flag(Lo(value))]
    ELSE IF stmt = "a_hi" THEN [rf EXCEPT !.registers[RegA] = Hi(value)]
    ELSE IF stmt = "lo" THEN [rf EXCEPT !.registers[reg.b.id] = Lo(value)]
    ELSE IF stmt = "hi" THEN [rf EXCEPT !.registers[reg.a.id] = Hi(value)]
    ELSE IF stmt = "sp_word" THEN [rf EXCEPT !.sp = StackPointer(value)]
    ELSE IF stmt = "pc_word" THEN [rf EXCEPT !.pc = StackPointer(value)]
    ELSE rf

\* Values written to the pairs: AF gets every high nibble of the flag byte.
WordSample    == {43981}
PointerSample == {43981, 4660}
AFSample      == {4607} \cup {n * 16 + 15 : n \in 0..15}
FlagBytes     == {32, 255}
ValuesFor(name) ==
    IF name = "AF" THEN AFSample
    ELSE IF name \in {"SP", "PC"} THEN PointerSample
    ELSE WordSample

Idle == [active |-> FALSE, name |-> "-", reg |-> StackPointer(0), value |-> 0, i |-> 0,
         old |-> Register_new]
NoOp == [op |-> "none", name |-> "-", value |-> 0, old |-> Register_new]
Done(op, name, value, old) == [op |-> op, name |-> name, value |-> value, old |-> old]

SetRegFile(rf) ==
    /\ registers' = rf.registers
    /\ flags' = rf.flags
    /\ sp' = rf.sp
    /\ pc' = rf.pc

\* The statement the running pair write executes next.
NextStmt == SwrProgram(swr.reg.tag)[swr.i]
LastStmt == swr.i = Len(SwrProgram(swr.reg.tag))

\* After a statement: on to the next one, or return to the caller.
SwrAdvance ==
    IF LastStmt
    THEN /\ swr' = Idle
         /\ last' = Done("set_word", swr.name, swr.value, swr.old)
    ELSE /\ swr' = [swr EXCEPT !.i = swr.i + 1]
         /\ UNCHANGED last

\* set_word_register / set_word_register_with_callback are entered: reg is
\* passed by value, so it is what the caller read before the call.
SetWordCall(name, value) ==
    /\ ~swr.active
    /\ swr' = [active |-> TRUE, name |-> name, reg |-> Handle(Now, name), value |-> value,
               i |-> 1, old |-> Now]
    /\ cb_calls' = 0
    /\ last' = NoOp
    /\ UNCHANGED <<registers, flags, sp, pc>>
    /\ UNCHANGED <<schema_vars, bus_vars>>

\* A store statement of the selected arm.
SetWordStore ==
    /\ swr.active
    /\ NextStmt # "callback"
    /\ SetRegFile(SwrStore(Now, NextStmt, swr.reg, swr.value))
    /\ SwrAdvance
    /\ UNCHANGED cb_calls
    /\ UNCHANGED <<schema_vars, bus_vars>>

\* callback(mem): it is handed the bus alone and cannot touch the register file.
SetWordCallback ==
    /\ swr.active
    /\ NextStmt = "callback"
    /\ cb_calls' = cb_calls + 1
    /\ SwrAdvance
    /\ UNCHANGED <<registers, flags, sp, pc>>
    /\ UNCHANGED <<schema_vars, bus_vars>>

\* Register::set_flags(z, n, h, c)
SetFlags(z, n, h, c) ==
    /\ ~swr.active
    /\ flags' = set_flags(z, n, h, c)
    /\ last' = NoOp
    /\ UNCHANGED <<registers, sp, pc, swr, cb_calls>>
    /\ UNCHANGED <<schema_vars, bus_vars>>

\* Register::set_flag(v), called on its own.
SetFlagByte(v) ==
    /\ ~swr.active
    /\ flags' = set_flag(v)
    /\ last' = Done("set_flag", "F", v, Now)
    /\ UNCHANGED <<registers, sp, pc, swr, cb_calls>>
    /\ UNCHANGED <<schema_vars, bus_vars>>

\* regs.flags.set(v)
FlagsSet(v) ==
    /\ ~swr.active
    /\ flags' = FlagRegister_set(v)
    /\ last' = Done("set", "F", v, Now)
    /\ UNCHANGED <<registers, sp, pc, swr, cb_calls>>
    /\ UNCHANGED <<schema_vars, bus_vars>>

\* Pack the flags with FlagRegister::value and unpack the byte again, with
\* Register::set_flag ...
RepackSetFlag ==
    /\ ~swr.active
    /\ flags' = set_flag(FlagRegister_value(flags))
    /\ last' = Done("repack_set_flag", "F", FlagRegister_value(flags), Now)
    /\ UNCHANGED <<registers, sp, pc, swr, cb_calls>>
    /\ UNCHANGED <<schema_vars, bus_vars>>

\* ... and with FlagRegister::set.
RepackSet ==
    /\ ~swr.active
    /\ flags' = FlagRegister_set(FlagRegister_value(flags))
    /\ last' = Done("repack_set", "F", FlagRegister_value(flags), Now)
    /\ UNCHANGED <<registers, sp, pc, swr, cb_calls>>
    /\ UNCHANGED <<schema_vars, bus_vars>>

RegInit ==
    /\ registers = Register_new.registers
    /\ flags = Register_new.flags
    /\ sp = Register_new.sp
    /\ pc = Register_new.pc
    /\ swr = Idle
    /\ cb_calls = 0
    /\ last = Done("new", "-", 0, Register_new)

RegNext ==
    \/ \E name \in WordNames : \E value \in ValuesFor(name) : SetWordCall(name, value)
    \/ SetWordStore
    \/ SetWordCallback
    \/ \E z, n, h, c \in BOOLEAN : SetFlags(z, n, h, c)
    \/ \E v \in FlagBytes : SetFlagByte(v)
    \/ \E v \in FlagBytes : FlagsSet(v)
    \/ RepackSetFlag
    \/ RepackSet

(***************************************************************************)
(* Schema queries: the decoder hands a Command to size and to cycles.      *)
(***************************************************************************)
NoResults == [b \in BOOLEAN |-> NotQueried]

SchemaInit ==
    /\ cmd \in Command
    /\ size_res = NotQueried
    /\ cycles_res = NoResults

\* Another command is decoded.
Decode(c) ==
    /\ cmd' = c
    /\ size_res' = NotQueried
    /\ cycles_res' = NoResults
    /\ UNCHANGED <<reg_vars, bus_vars>>

QuerySize ==
    /\ size_res' = Command_size(cmd)
    /\ UNCHANGED <<cmd, cycles_res>>
    /\ UNCHANGED <<reg_vars, bus_vars>>

QueryCycles(branch) ==
    /\ cycles_res' = [cycles_res EXCEPT ![branch] = Command_cycles(cmd, branch)]
    /\ UNCHANGED <<cmd, size_res>>
    /\ UNCHANGED <<reg_vars, bus_vars>>

SchemaNext ==
    \/ \E c \in Command : Decode(c)
    \/ QuerySize
    \/ \E branch \in BOOLEAN : QueryCycles(branch)

SchemaIdle ==
    /\ cmd = Cmd("NOP", NoOperand, FALSE, "-", 0)
    /\ size_res = NotQueried
    /\ cycles_res = NoResults

(***************************************************************************)
(*                            MEMORY BUS                                   *)
(* The bus is handled as one record (the fields of struct MemoryMap); the  *)
(* PPU, the timer, the joypad and the interrupt controller are other files *)
(* of the repository and are modelled from the specification.              *)
(***************************************************************************)
OamLen   == 3        \* ppu.oam.len(): 0xA0 on the machine, scaled down here
MaxCalls == 6        \* bus calls explored from power-on
MaxMapCalls == 2     \* bus calls explored over the whole address map

OamBase  == 65024    \* 0xFE00
DmaReg   == 65350    \* 0xFF46
HighPage == 65280    \* 0xFF00
PageSize == 256      \* 0x100

\* An address as the generic entry points receive it: its Rust type and value.
Addr(ty, n) == [ty |-> ty, n |-> n]

\* `if address.type_id() == TypeId::of::<u8>() { address.into() + 0xFF00 }`
translated_address(address) ==
    IF address.ty = "u8" THEN address.n + HighPage ELSE address.n

\* Bytes the executor writes; a byte written to 0xFF46 is a DMA source page.
Vals == {0, 192}
SourceOf(base) == {base * PageSize + i : i \in 0..(OamLen - 1)}
SoundReg == 65296    \* 0xFF10 (NR10), flat
LcdcReg  == 65344    \* 0xFF40
TimaReg  == 65285    \* 0xFF05
P1Reg    == 65280    \* 0xFF00
IfReg    == 65295    \* 0xFF0F
IeReg    == 65535    \* 0xFFFF

\* The addresses of the flat array the model keeps.
Unusable == 65184    \* 0xFEA0, first address of the unusable range
MemAddrs == (UNION {SourceOf(b) : b \in Vals}) \cup {SoundReg, Unusable}

\* ---- PPU (ppu.rs) ----
OamAddrs    == OamBase..(OamBase + OamLen - 1)
PpuRegAddrs == {LcdcReg}
PpuOwns(a)  == \/ a \in 32768..40959          \* VRAM 0x8000..0x9FFF
               \/ a \in OamAddrs
               \/ a \in 65344..65355          \* 0xFF40..0xFF4B

PPU_new == [dma |-> "Inactive", dma_offset |-> 0, dma_progress |-> 0,
            oam |-> [i \in 0..(OamLen - 1) |-> 0],
            regs |-> [a \in PpuRegAddrs |-> 0]]

\* PPU::read on an address the PPU owns.
PpuRead(p, a) ==
    IF a \in OamAddrs THEN p.oam[a - OamBase]
    ELSE IF a = DmaReg THEN p.dma_offset
    ELSE IF a \in PpuRegAddrs THEN p.regs[a]
    ELSE 255

\* PPU::write on an address the PPU owns. A write to 0xFF46 initiates a DMA:
\* the DMA state leaves Inactive. A request made while a transfer is under way
\* is not described by the specification and takes no effect here.
PpuWrite(p, a, v) ==
    IF a \in OamAddrs THEN [p EXCEPT !.oam[a - OamBase] = v]
    ELSE IF a = DmaReg THEN
        (IF p.dma = "Inactive"
         THEN [p EXCEPT !.dma = "Starting", !.dma_offset = v, !.dma_progress = 0]
         ELSE p)
    ELSE IF a \in PpuRegAddrs THEN [p EXCEPT !.regs[a] = v]
    ELSE p

\* The DMA part of PPU::machine_cycle: one byte per machine cycle, beginning
\* with the cycle after the one in which the DMA was started.
PpuDmaCycle(p) ==
    IF p.dma = "Starting" THEN [p EXCEPT !.dma = "Active", !.dma_progress = 1]
    ELSE IF p.dma = "Active" THEN
        (IF p.dma_progress < OamLen
         THEN [p EXCEPT !.dma_progress = p.dma_progress + 1]
         ELSE [p EXCEPT !.dma = "Inactive", !.dma_progress = 0])
    ELSE p

\* ---- timer, interrupt controller, joypad ----
TimerAddrs       == 65284..65287              \* 0xFF04..0xFF07
TimerOwns(a)     == a \in TimerAddrs
InterruptOwns(a) == a \in {IfReg, IeReg}
JoypadOwns(a)    == a = P1Reg

InterruptId == {"VBlankInt", "StatInt", "TimerInt", "JoypadInt"}
IfBit(i) == IF i = "VBlankInt" THEN 1 ELSE IF i = "StatInt" THEN 2
            ELSE IF i = "TimerInt" THEN 4 ELSE 16
RECURSIVE IfByte(_)
IfByte(S) == IF S = {} THEN 0
             ELSE LET i == CHOOSE x \in S : TRUE IN IfBit(i) + IfByte(S \ {i})
IfSet(v) == {i \in InterruptId : BitSet(v, IfBit(i))}

Timer_new   == [a \in TimerAddrs |-> 0]
Joypad_new  == 255
InterruptHandler_new == [requests |-> {}, enable |-> 0]

InterruptRead(h, a)     == IF a = IfReg THEN IfByte(h.requests) ELSE h.enable
InterruptWrite(h, a, v) == IF a = IfReg THEN [h EXCEPT !.requests = IfSet(v)]
                           ELSE [h EXCEPT !.enable = v]
\* InterruptHandler::set(interrupts, true)
InterruptSet(h, ints)   == [h EXCEPT !.requests = h.requests \cup ints]

\* ---- MemoryMap ----
Bus == [memory |-> memory, rom_size |-> rom_size, cycles |-> cycles,
        dma_progress |-> dma_progress, ppu |-> ppu, timer |-> timer, joypad |-> joypad,
        interrupt_handler |-> interrupt_handler]

\* The subsystems in the order read_without_cycle chains them with `.or`,
\* and in the order write_without_cycle chains them with `||`.
ReadOrder == <<"ppu", "interrupt_handler", "timer", "joypad">>

\* Mutant: writes are offered in the order of reads.
WriteOrder_as_read == <<"ppu", "interrupt_handler", "timer", "joypad">>

WriteOrder == <<"ppu", "timer", "interrupt_handler", "joypad">>

\* Whether subsystem s claims address a (its read returns Some, its write true).
Claims(s, a) ==
    IF s = "ppu" THEN PpuOwns(a)
    ELSE IF s = "interrupt_handler" THEN InterruptOwns(a)
    ELSE IF s = "timer" THEN TimerOwns(a)
    ELSE JoypadOwns(a)

\* The subsystems tried in `order` up to the first that claims a. The `||`
\* chain of write_without_cycle calls exactly these; the `.or` chain of
\* read_without_cycle evaluates every operand and returns the first Some.
RECURSIVE OfferedFrom(_, _, _)
OfferedFrom(order, a, k) ==
    IF k > Len(order) THEN <<>>
    ELSE IF Claims(order[k], a) THEN <<order[k]>>
    ELSE <<order[k]>> \o OfferedFrom(order, a, k + 1)
Offered(order, a) == OfferedFrom(order, a, 1)

\* The subsystem that takes the access, "memory" when none claims it.
Taker(order, a) ==
    LET o == Offered(order, a)
    IN  IF Claims(o[Len(o)], a) THEN o[Len(o)] ELSE "memory"

\* MemoryMap::read_without_cycle, the address already translated.
ReadAt(b, a) ==
    LET s == Taker(ReadOrder, a) IN
    IF s = "ppu" THEN PpuRead(b.ppu, a)
    ELSE IF s = "interrupt_handler" THEN InterruptRead(b.interrupt_handler, a)
    ELSE IF s = "timer" THEN b.timer[a]
    ELSE IF s = "joypad" THEN b.joypad
    ELSE b.memory[a]

read_without_cycle(b, address) == ReadAt(b, translated_address(address))

\* Mutant: the fall-through store ignores rom_size.
write_without_cycle_unfiltered(b, address, value) ==
    LET a == translated_address(address) IN
    IF \E k \in DOMAIN WriteOrder : Claims(WriteOrder[k], a)
    THEN b
    ELSE [b EXCEPT !.memory[a] = value]

\* MemoryMap::write_without_cycle
write_without_cycle(b, address, value) ==
    LET a == translated_address(address)
        s == Taker(WriteOrder, a)
    IN
    IF s = "ppu" THEN [b EXCEPT !.ppu = PpuWrite(b.ppu, a, value)]
    ELSE IF s = "timer" THEN [b EXCEPT !.timer[a] = value]
    ELSE IF s = "interrupt_handler" THEN
        [b EXCEPT !.interrupt_handler = InterruptWrite(b.interrupt_handler, a, value)]
    ELSE IF s = "joypad" THEN [b EXCEPT !.joypad = value]
    ELSE IF a >= b.rom_size /\ a \in DOMAIN b.memory THEN [b EXCEPT !.memory[a] = value]
    ELSE b

\* MemoryMap::dma_transfer. `lag` and `tick_cost` are 0 in the code: the loop
\* runs while dma_progress + lag < ppu.dma_progress, and each copied byte
\* adds tick_cost to the cycle counter.
RECURSIVE DmaLoop(_, _, _)
DmaLoop(b, lag, tick_cost) ==
    IF b.dma_progress + lag < b.ppu.dma_progress
    THEN DmaLoop([b EXCEPT
                    !.ppu.oam[b.dma_progress] =
                        read_without_cycle(b, Addr("usize",
                            b.ppu.dma_offset * PageSize + b.dma_progress)),
                    !.dma_progress = b.dma_progress + 1,
                    !.cycles = (b.cycles + tick_cost) % U16],
                 lag, tick_cost)
    ELSE b

DmaTransferAs(b, lag, tick_cost) ==
    IF b.ppu.dma \in {"Inactive", "Starting"} THEN b
    ELSE LET c == DmaLoop(b, lag, tick_cost)
         IN  IF c.dma_progress = OamLen THEN [c EXCEPT !.dma_progress = 0] ELSE c

\* Mutant: the copy loop uses the ticking read, so each byte costs a cycle.
dma_transfer_ticking_read(b) == DmaTransferAs(b, 0, 1)

\* Mutant: the copy loop stops one byte short of the PPU's position.
dma_transfer_one_short(b) == DmaTransferAs(b, 1, 0)

\* Mutant: the progress counter is not reset when it reaches the OAM's length.
dma_transfer_no_reset(b) ==
    IF b.ppu.dma \in {"Inactive", "Starting"} THEN b ELSE DmaLoop(b, 0, 0)

dma_transfer(b) == DmaTransferAs(b, 0, 0)

\* What the three subsystems report in one machine cycle.
Event(p, t, j) == [ppu |-> p, timer |-> t, joypad |-> j]
Events == {Event("Normal", FALSE, 0), Event("NormalVBlank", TRUE, 0),
           Event("StatTriggerVBlank", FALSE, 1), Event("StatTrigger", FALSE, 2)}

\* The vector `interrupts` that machine_cycle builds: what the PPU's report
\* maps to, then the timer's, then one JoypadInt per reported joypad event.
\* Mutant: a STAT trigger that comes with the change into VBlank raises
\* VBlank alone.
PpuInterrupts_vblank_hides_stat(r) ==
    IF r \in {"StatTriggerVBlank", "NormalVBlank"} THEN <<"VBlankInt">>
    ELSE IF r = "StatTrigger" THEN <<"StatInt">>
    ELSE <<>>

PpuInterrupts(r) ==
    IF r = "StatTriggerVBlank" THEN <<"VBlankInt", "StatInt">>
    ELSE IF r = "NormalVBlank" THEN <<"VBlankInt">>
    ELSE IF r = "StatTrigger" THEN <<"StatInt">>
    ELSE <<>>
TimerInterrupts(r)  == IF r THEN <<"TimerInt">> ELSE <<>>
JoypadInterrupts(n) == [k \in 1..n |-> "JoypadInt"]
Interrupts(ev) ==
    PpuInterrupts(ev.ppu) \o TimerInterrupts(ev.timer) \o JoypadInterrupts(ev.joypad)
Range(s) == {s[k] : k \in DOMAIN s}

\* MemoryMap::machine_cycle
machine_cycle(b, ev) ==
    [b EXCEPT !.ppu = PpuDmaCycle(b.ppu),
              !.interrupt_handler =
                  InterruptSet(b.interrupt_handler, Range(Interrupts(ev)))]

\* `self.cycles += 1` on a u16: at 0xFFFF a build with overflow checks panics,
\* a build without them wraps.
Overflows(b) == b.cycles + 1 >= U16

\* Mutant: the tick runs the subsystems before the DMA step.
cycle_dma_last(b, ev) ==
    dma_transfer(machine_cycle([b EXCEPT !.cycles = (b.cycles + 1) % U16], ev))

\* MemoryMap::cycle, when the increment does not panic.
cycle(b, ev) ==
    machine_cycle(dma_transfer([b EXCEPT !.cycles = (b.cycles + 1) % U16]), ev)

\* The rom handed to MemoryMap::new: its length, and its bytes.
RomLens == {32768, 65536}
RomByte(a) == (a * 7 + 17) % U8

\* MemoryMap::init_memory: the register writes of lines 123-154, in order.
InitWrites ==
    << <<65285, 0>>, <<65286, 0>>, <<65287, 0>>, <<65296, 128>>, <<65297, 191>>,
       <<65298, 243>>, <<65300, 191>>, <<65302, 63>>, <<65302, 63>>, <<65303, 0>>,
       <<65305, 191>>, <<65306, 127>>, <<65307, 255>>, <<65308, 159>>, <<65310, 255>>,
       <<65312, 255>>, <<65313, 0>>, <<65314, 0>>, <<65315, 191>>, <<65316, 119>>,
       <<65317, 243>>, <<65318, 241>>, <<65344, 145>>, <<65346, 0>>, <<65347, 0>>,
       <<65349, 0>>, <<65351, 252>>, <<65352, 255>>, <<65353, 255>>, <<65354, 0>>,
       <<65355, 0>>, <<65280, 255>> >>

RECURSIVE ApplyWrites(_, _, _)
ApplyWrites(b, ws, k) ==
    IF k > Len(ws) THEN b
    ELSE ApplyWrites(write_without_cycle(b, Addr("u16", ws[k][1]), ws[k][2]), ws, k + 1)

\* The addresses whose contents the model keeps; a write elsewhere changes
\* nothing the model holds.
Kept == MemAddrs \cup OamAddrs \cup PpuRegAddrs \cup {DmaReg} \cup TimerAddrs
        \cup {IfReg, IeReg, P1Reg}
IsKept(w) == w[1] \in Kept

init_memory(mem, rom_len) ==
    ApplyWrites([mem EXCEPT !.memory =
                     [a \in MemAddrs |-> IF a < rom_len THEN RomByte(a) ELSE mem.memory[a]]],
                SelectSeq(InitWrites, IsKept), 1)

\* MemoryMap::new
MemoryMap_new(rom_len) ==
    init_memory([memory |-> [a \in MemAddrs |-> 0], rom_size |-> rom_len, cycles |-> 0,
                 dma_progress |-> 0, ppu |-> PPU_new, timer |-> Timer_new,
                 joypad |-> Joypad_new, interrupt_handler |-> InterruptHandler_new],
                rom_len)

SetBus(b) ==
    /\ memory' = b.memory
    /\ rom_size' = b.rom_size
    /\ cycles' = b.cycles
    /\ dma_progress' = b.dma_progress
    /\ ppu' = b.ppu
    /\ timer' = b.timer
    /\ joypad' = b.joypad
    /\ interrupt_handler' = b.interrupt_handler

\* The addresses the executor reads and writes.
WriteAddrs == {Addr("u16", 0), Addr("u16", 49152), Addr("u16", 49153), Addr("u8", 70)}
ReadAddrs  == {Addr("u16", 49152), Addr("u16", OamBase), Addr("u8", 70)}

\* The counter values a run starts from: a new bus, and a bus that has been
\* read 0xFFFD times while the PPU was idle, which differs from a new one in
\* the counter alone.
StartCycles == {0, 65533}

\* The record of a bus call: entry point, address as given, byte written,
\* byte returned, what the subsystems reported in its tick, and the vector of
\* interrupts machine_cycle built from that.
Access(op, address, value, ret, ev) ==
    [op |-> op, address |-> address, value |-> value, ret |-> ret, ev |-> ev,
     interrupts |-> Interrupts(ev),
     offered |-> IF op = "write" THEN Offered(WriteOrder, translated_address(address))
                 ELSE IF op = "new" THEN <<>>
                 ELSE ReadOrder]
NoAccess == Access("new", Addr("-", 0), 0, 0, Event("Normal", FALSE, 0))

NoTrack == [on |-> FALSE, base |-> 0, age |-> 0, dirty |-> FALSE]

\* Observation of a DMA transfer across one bus call from b to c: it begins
\* when the call makes the PPU's DMA state leave Inactive, counts the machine
\* cycles after that call, and notes a change of a source byte.
Track(b, c) ==
    IF b.ppu.dma = "Inactive" /\ c.ppu.dma # "Inactive"
    THEN [on |-> TRUE, base |-> c.ppu.dma_offset, age |-> 0, dirty |-> FALSE]
    ELSE IF dma_track.on /\ dma_track.age < OamLen
    THEN [dma_track EXCEPT
            !.age = dma_track.age + 1,
            !.dirty = dma_track.dirty \/
                      \E a \in SourceOf(dma_track.base) : ReadAt(c, a) # ReadAt(b, a)]
    ELSE NoTrack

BusInitFrom(starts) ==
    /\ \E rom_len \in RomLens : \E start \in starts :
          LET b == [MemoryMap_new(rom_len) EXCEPT !.cycles = start] IN
          /\ memory = b.memory
          /\ rom_size = b.rom_size
          /\ cycles = b.cycles
          /\ dma_progress = b.dma_progress
          /\ ppu = b.ppu
          /\ timer = b.timer
          /\ joypad = b.joypad
          /\ interrupt_handler = b.interrupt_handler
          /\ cycles0 = start
    /\ panicked = FALSE
    /\ calls = 0
    /\ dma_track = NoTrack
    /\ access = NoAccess

BusInit == BusInitFrom(StartCycles)

\* A ticking call whose data transfer left the bus as b1: the tick follows,
\* unless the increment of the counter panics.
Tick(b1, ev, checked) ==
    IF Overflows(b1) /\ checked
    THEN /\ SetBus(b1)
         /\ panicked' = TRUE
         /\ UNCHANGED <<calls, cycles0, dma_track>>
    ELSE /\ SetBus(cycle(b1, ev))
         /\ calls' = calls + 1
         /\ dma_track' = Track(Bus, cycle(b1, ev))
         /\ UNCHANGED <<panicked, cycles0>>

\* MemoryMap::read
BusRead(address, ev, checked) ==
    /\ ~panicked
    /\ read_without_cycle(Bus, address) \in 0..(U8 - 1)
    /\ access' = Access("read", address, 0, read_without_cycle(Bus, address), ev)
    /\ Tick(Bus, ev, checked)
    /\ UNCHANGED <<schema_vars, reg_vars>>

\* MemoryMap::write
BusWrite(address, value, ev, checked) ==
    /\ ~panicked
    /\ access' = Access("write", address, value, 0, ev)
    /\ Tick(write_without_cycle(Bus, address, value), ev, checked)
    /\ UNCHANGED <<schema_vars, reg_vars>>

\* MemoryMap::read_without_cycle, called from outside the bus: no field changes.
BusReadWithoutCycle(address) ==
    /\ ~panicked
    /\ read_without_cycle(Bus, address) \in 0..(U8 - 1)
    /\ access' = Access("read_without_cycle", address, 0,
                        read_without_cycle(Bus, address), Event("Normal", FALSE, 0))
    /\ UNCHANGED <<memory, rom_size, cycles, dma_progress, ppu, timer, joypad,
                   interrupt_handler, panicked, calls, cycles0, dma_track>>
    /\ UNCHANGED <<schema_vars, reg_vars>>

\* Whether the build checks arithmetic overflow matters at 0xFFFF alone.
Builds == IF cycles + 1 >= U16 THEN BOOLEAN ELSE {FALSE}

\* What the subsystems report while the DMA engine is exercised.
BusEvents == {Event("Normal", FALSE, 0), Event("NormalVBlank", TRUE, 0)}

BusNext ==
    \/ \E address \in ReadAddrs, ev \in BusEvents, checked \in Builds :
          calls < MaxCalls /\ BusRead(address, ev, checked)
    \/ \E address \in WriteAddrs, value \in Vals, ev \in BusEvents, checked \in Builds :
          calls < MaxCalls /\ BusWrite(address, value, ev, checked)
    \/ \E address \in ReadAddrs : BusReadWithoutCycle(address)

\* The accesses explored for the address map: ROM, work RAM, the unusable
\* range, a sound register, and one address of each subsystem (0xFF40 PPU,
\* 0xFF05 timer, 0xFF0F interrupt controller, high-page offset 0 = P1 joypad).
MapAddrs == {Addr("u16", 0), Addr("u16", 49152), Addr("u16", Unusable),
             Addr("u16", SoundReg), Addr("u16", LcdcReg), Addr("u16", TimaReg),
             Addr("u16", IfReg), Addr("u8", 0)}
MapInit == BusInitFrom({0})

MapNext ==
    \/ \E address \in MapAddrs, ev \in Events :
          calls < MaxMapCalls /\ BusRead(address, ev, FALSE)
    \/ \E address \in MapAddrs, value \in Vals, ev \in Events :
          calls < MaxMapCalls /\ BusWrite(address, value, ev, FALSE)
    \/ \E address \in MapAddrs : BusReadWithoutCycle(address)

SetBusIdle ==
    LET b == MemoryMap_new(32768) IN
    /\ memory = b.memory
    /\ rom_size = b.rom_size
    /\ cycles = b.cycles
    /\ dma_progress = b.dma_progress
    /\ ppu = b.ppu
    /\ timer = b.timer
    /\ joypad = b.joypad
    /\ interrupt_handler = b.interrupt_handler

BusIdle ==
    /\ SetBusIdle
    /\ panicked = FALSE
    /\ calls = 0
    /\ cycles0 = 0
    /\ dma_track = NoTrack
    /\ access = NoAccess

(***************************************************************************)
(*                         SPECIFICATIONS                                  *)
(***************************************************************************)
InitSchema == SchemaInit /\ RegInit /\ BusIdle
InitReg    == SchemaIdle /\ RegInit /\ BusIdle
InitBus    == SchemaIdle /\ RegInit /\ BusInit
InitMap    == SchemaIdle /\ RegInit /\ MapInit

SpecSchema == InitSchema /\ [][SchemaNext]_vars
SpecReg    == InitReg /\ [][RegNext]_vars
SpecBus    == InitBus /\ [][BusNext]_vars
SpecMap    == InitMap /\ [][MapNext]_vars

Spec == InitBus /\ [][BusNext]_vars

(***************************************************************************)
(*                              CLAIMS                                     *)
(***************************************************************************)

\* ---- memory bus (SpecBus) ----

\* C1: after N completed calls of MemoryMap::read / MemoryMap::write, whatever
\* the address, the value, the ROM filter and the DMA state, the cycle counter
\* has advanced by exactly N (as a u16); read_without_cycle and the bytes the
\* DMA step copies inside a tick do not advance it.
C1_TickAccounting == cycles = (cycles0 + calls) % U16

\* C1 witness: calls were made and the DMA step has copied bytes inside them.
C1_Witness ==
    /\ calls >= 3
    /\ ppu.dma = "Active"
    /\ dma_progress >= 2
    /\ cycles = cycles0 + calls

Ticking(op) == access'.op = op /\ (calls' = calls + 1 \/ (panicked' /\ ~panicked))

Target      == translated_address(access.address)
Unclaimed(a) == \A k \in DOMAIN ReadOrder : ~Claims(ReadOrder[k], a)
RomIntact   == \A a \in MemAddrs : a < rom_size => memory[a] = RomByte(a)

\* C11: a MemoryMap::write to an address below rom_size that no subsystem
\* claims leaves the flat array unchanged, so every such address still holds
\* the ROM byte loaded at power-on, and the call performs exactly one tick;
\* the write itself raises no error (the one abort a bus call can meet is
\* the overflow check on the counter at 0xFFFF, whatever the address).
C11_RomWriteDropped ==
    [][(Ticking("write") /\ Target' < rom_size /\ Unclaimed(Target'))
          => /\ memory' = memory
             /\ RomIntact'
             /\ panicked' => cycles = U16 - 1
             /\ ~panicked' => /\ calls' = calls + 1
                              /\ cycles' = (cycles + 1) % U16]_vars

\* C11 witness: two writes of 0xC0 went to ROM address 0, which still holds
\* its ROM byte.
C11_Witness ==
    /\ access.op = "write"
    /\ Target = 0
    /\ access.value = 192
    /\ calls >= 2
    /\ memory[0] = RomByte(0)
    /\ memory[0] # 192

\* The bus as the data transfer of the call recorded in access' leaves it,
\* before that call's tick.
Transferred ==
    IF access'.op = "write"
    THEN write_without_cycle(Bus, access'.address, access'.value)
    ELSE Bus

\* The OAM slots the DMA step of a tick fills when it starts from bus b.
Copied(b) == IF b.ppu.dma = "Active"
             THEN b.dma_progress..(b.ppu.dma_progress - 1) ELSE {}

AtDmaStep == [Transferred EXCEPT !.cycles = (cycles + 1) % U16]

\* C16: the DMA step of a tick. With the PPU's DMA state Inactive or Starting
\* it changes neither OAM nor the bus's progress counter. With the state
\* Active, bus progress p and PPU position q (p <= q <= OAM length) it stores
\* into OAM[i], for the slots p <= i < q and no others, the byte the no-tick
\* read gives at dma_offset * 0x100 + i, and leaves the counter at q, or at 0
\* when q is the OAM length. It changes nothing else, and at the end of every
\* tick the counter is below the OAM length.
C16_DmaStep ==
    [][(calls' = calls + 1)
          => LET b == AtDmaStep
                 d == dma_transfer(b)
                 p == b.dma_progress
                 q == b.ppu.dma_progress
             IN
             /\ b.ppu.dma \in {"Inactive", "Starting"}
                   => d.ppu.oam = b.ppu.oam /\ d.dma_progress = p
             /\ (b.ppu.dma = "Active" /\ p <= q /\ q <= OamLen)
                   => /\ \A i \in 0..(OamLen - 1) :
                            d.ppu.oam[i] =
                               IF p <= i /\ i < q
                               THEN read_without_cycle(b, Addr("usize",
                                        b.ppu.dma_offset * PageSize + i))
                               ELSE b.ppu.oam[i]
                      /\ d.dma_progress = IF q = OamLen THEN 0 ELSE q
             /\ d = [b EXCEPT !.ppu.oam = d.ppu.oam, !.dma_progress = d.dma_progress]
             /\ ppu'.oam = d.ppu.oam
             /\ dma_progress' = d.dma_progress
             /\ dma_progress' \in 0..(OamLen - 1)]_vars

\* C16 witness: a transfer from the ROM page 0 has just ended; the last tick
\* copied the last OAM slot and reset the progress counter.
C16_Witness ==
    /\ dma_track.on
    /\ dma_track.base = 0
    /\ dma_track.age = OamLen
    /\ ppu.dma = "Inactive"
    /\ dma_progress = 0
    /\ ppu.oam[OamLen - 1] = RomByte(OamLen - 1)
    /\ ppu.oam[OamLen - 1] # 0

\* C20: the cycle counter runs freely over 16 bits: every call of
\* MemoryMap::read / MemoryMap::write returns and leaves the counter one
\* higher modulo 2^16, so the call made at 0xFFFF leaves it at 0.
C20_FreeRunningCounter ==
    [][(Ticking("read") \/ Ticking("write"))
          => /\ ~panicked'
             /\ cycles' = (cycles + 1) % U16
             /\ cycles = U16 - 1 => cycles' = 0]_vars

\* ---- address map (SpecMap) ----

RamRange == 40960..57343      \* 0xA000..0xDFFF, external RAM and work RAM
RomRange == 0..32767          \* 0x0000..0x7FFF

\* C12: on a bus built from a ROM of any length up to 0x10000, a write of v to
\* an address of external or work RAM is followed by a read of that address
\* returning v, and the read-only region lies within 0x0000..0x7FFF.
C12_RamWritable ==
    /\ (access.op = "write" /\ Target \in RamRange) => ReadAt(Bus, Target) = access.value
    /\ \A a \in 0..(rom_size - 1) : a \in RomRange

\* C13: no bus call fails on account of its address, and an address of the
\* unusable range 0xFEA0..0xFEFF reads 0xFF at power-on and after any
\* sequence of writes to it.
C13_UnusableRange ==
    /\ ~panicked
    /\ \A a \in MemAddrs : a \in 65184..65279 => ReadAt(Bus, a) = 255

\* The documented reset values of the registers the model keeps:
\* NR10 = 0x80, LCDC = 0x91, P1 = 0xFF, TIMA/TMA/TAC = 0.
ResetTable == {<<SoundReg, 128>>, <<LcdcReg, 145>>, <<P1Reg, 255>>,
               <<TimaReg, 0>>, <<TimaReg + 1, 0>>, <<TimaReg + 2, 0>>}

\* C14: right after MemoryMap::new, for every ROM it accepts, each register
\* of the reset table reads its reset value through read_without_cycle, the
\* cycle counter and the DMA progress counter are 0 and no tick has been made.
C14_PowerOn ==
    access.op = "new"
        => /\ \A r \in ResetTable : read_without_cycle(Bus, Addr("u16", r[1])) = r[2]
           /\ cycles = 0
           /\ dma_progress = 0
           /\ calls = 0
           /\ interrupt_handler.requests = {}

\* What a report of the PPU says: ModeChange(_, VBlank) inside it, and the
\* StatTrigger wrapper around it.
IntoVBlank(r)    == r \in {"NormalVBlank", "StatTriggerVBlank"}
StatTriggered(r) == r \in {"StatTrigger", "StatTriggerVBlank"}
Count(s, x)      == Cardinality({k \in DOMAIN s : s[k] = x})

\* C17: in every tick the interrupts raised are: VBlank iff the PPU reported
\* a change into VBlank, STAT iff it reported StatTrigger, Timer iff the timer
\* reported an overflow, and one Joypad request per event the joypad
\* reported; the controller's pending requests after the tick are those
\* pending before it together with the ones raised.
C17_InterruptRequests ==
    [][(calls' = calls + 1)
          => LET ev     == access'.ev
                 raised == access'.interrupts
                 before == Transferred.interrupt_handler.requests
             IN
             /\ Count(raised, "VBlankInt") = (IF IntoVBlank(ev.ppu) THEN 1 ELSE 0)
             /\ Count(raised, "StatInt") = (IF StatTriggered(ev.ppu) THEN 1 ELSE 0)
             /\ Count(raised, "TimerInt") = (IF ev.timer THEN 1 ELSE 0)
             /\ Count(raised, "JoypadInt") = ev.joypad
             /\ interrupt_handler'.requests = before \cup Range(raised)
             /\ IfByte(interrupt_handler'.requests) =
                   ReadAt(cycle(Transferred, ev), IfReg)]_vars

\* C17 witness: a tick with a bare StatTrigger and two joypad events followed
\* one that had raised VBlank and Timer; all four requests are pending.
C17_Witness ==
    /\ access.ev = Event("StatTrigger", FALSE, 2)
    /\ access.interrupts = <<"StatInt", "JoypadInt", "JoypadInt">>
    /\ interrupt_handler.requests = InterruptId
    /\ calls = 2

\* C18, as stated: a write is offered to the subsystems in the order of a
\* read (PPU, interrupt controller, timer, joypad) up to the first that claims
\* the address, and an unclaimed read returns the flat-array byte.
C18_Original ==
    /\ access.op = "write"
          => access.offered =
                Offered(<<"ppu", "interrupt_handler", "timer", "joypad">>, Target)
    /\ (access.op \in {"read", "read_without_cycle"} /\ Unclaimed(Target))
          => access.ret = memory[Target]

\* The fields of the bus a subsystem's write may change.
FieldOf(s, b) == IF s = "ppu" THEN b.ppu
                 ELSE IF s = "timer" THEN b.timer
                 ELSE IF s = "interrupt_handler" THEN b.interrupt_handler
                 ELSE IF s = "joypad" THEN b.joypad
                 ELSE b.memory

\* C18, amended: a write is offered in the order PPU, timer, interrupt
\* controller, joypad and stops at the first subsystem that claims the
\* address: no other part of the bus changes, and a claimed write does not
\* store into the flat array. A read asks all four subsystems, in the order
\* PPU, interrupt controller, timer, joypad, and returns the answer of the
\* first that claims the address, or the flat-array byte when none does.
C18_DispatchOrder ==
    [][(calls' = calls + 1)
          => LET a  == Target'
                 b1 == Transferred
                 wr == <<"ppu", "timer", "interrupt_handler", "joypad">>
                 rd == <<"ppu", "interrupt_handler", "timer", "joypad">>
                 first(o) == IF \E k \in 1..4 : Claims(o[k], a)
                             THEN o[CHOOSE k \in 1..4 :
                                      /\ Claims(o[k], a)
                                      /\ \A j \in 1..(k - 1) : ~Claims(o[j], a)]
                             ELSE "memory"
             IN
             /\ access'.op = "write"
                   => /\ access'.offered = Offered(wr, a)
                      /\ \A s \in {"ppu", "timer", "interrupt_handler", "joypad", "memory"} :
                            s # first(wr) => FieldOf(s, b1) = FieldOf(s, Bus)
                      /\ first(wr) # "memory" => memory' = memory
             /\ access'.op = "read"
                   => /\ access'.offered = rd
                      /\ first(rd) = "ppu" => access'.ret = PpuRead(ppu, a)
                      /\ first(rd) = "interrupt_handler"
                            => access'.ret = InterruptRead(interrupt_handler, a)
                      /\ first(rd) = "timer" => access'.ret = timer[a]
                      /\ first(rd) = "joypad" => access'.ret = joypad
                      /\ first(rd) = "memory" => access'.ret = memory[a]]_vars

\* C18 witness: a write to P1 (high-page offset 0) went past the PPU, the
\* timer and the interrupt controller to the joypad, which took the byte.
C18_Witness ==
    /\ access.op = "write"
    /\ access.address = Addr("u8", 0)
    /\ access.value = 192
    /\ access.offered = <<"ppu", "timer", "interrupt_handler", "joypad">>
    /\ joypad = 192

\* ---- register file (SpecReg) ----

\* C3: FlagRegister::value followed by either unpack operation (Register::
\* set_flag, FlagRegister::set) restores z, n, h, c; and the packed byte has
\* Z at bit 7, N at bit 6, H at bit 5, C at bit 4 and a zero low nibble.
C3_FlagRoundTrip ==
    last.op \in {"repack_set_flag", "repack_set"}
        => /\ flags = last.old.flags
           /\ last.value % 16 = 0
           /\ BitSet(last.value, 128) = last.old.flags.z
           /\ BitSet(last.value, 64) = last.old.flags.n
           /\ BitSet(last.value, 32) = last.old.flags.h
           /\ BitSet(last.value, 16) = last.old.flags.c

\* C4: writing v to AF and reading AF back gives v & 0xFFF0.
C4_AFReadBack ==
    (last.op = "set_word" /\ last.name = "AF")
        => Read(Now, "AF") = last.value - (last.value % 16)

\* C5: the register file produced by Register::new reads AF=0x01B0, BC=0x0013,
\* DE=0x00D8, HL=0x014D, SP=0xFFFE, PC=0x0100.
C5_ResetState ==
    last.op = "new"
        => /\ Read(Now, "AF") = 432
           /\ Read(Now, "BC") = 19
           /\ Read(Now, "DE") = 216
           /\ Read(Now, "HL") = 333
           /\ Read(Now, "SP") = 65534
           /\ Read(Now, "PC") = 256
           /\ flags = Flags(TRUE, FALSE, TRUE, TRUE)

\* The byte registers a named pair occupies.
PartsOf(name) ==
    IF name = "AF" THEN {RegA}
    ELSE IF name = "BC" THEN {RegB, RegC}
    ELSE IF name = "DE" THEN {RegD, RegE}
    ELSE IF name = "HL" THEN {RegH, RegL}
    ELSE {}

\* C6: for r among BC, DE, HL, SP, PC, in any reachable state, a write of v to
\* r followed by a read of r returns v, and every byte register, flag and
\* word register that is not part of r keeps its value.
C6_PairRoundTrip ==
    (last.op = "set_word" /\ last.name \in {"BC", "DE", "HL", "SP", "PC"})
        => /\ Read(Now, last.name) = last.value
           /\ \A id \in RegisterId \ PartsOf(last.name) :
                 registers[id] = last.old.registers[id]
           /\ flags = last.old.flags
           /\ \A other \in {"SP", "PC"} \ {last.name} :
                 Read(Now, other) = Read(last.old, other)

\* The moment the callback of the running pair write is invoked.
AtCallback == swr.active /\ NextStmt = "callback"

\* The low half of the register being written holds the new value.
LowHalfNew ==
    IF swr.reg.tag = "Double" THEN registers[swr.reg.b.id] = Lo(swr.value)
    ELSE IF swr.reg.tag = "AccFlag" THEN flags = set_flag(Lo(swr.value))
    ELSE IF swr.reg.tag = "StackPointer" THEN Lo(sp.n) = Lo(swr.value)
    ELSE Lo(pc.n) = Lo(swr.value)

\* The high half of the register being written still holds its old value.
HighHalfOld ==
    IF swr.reg.tag = "Double" THEN registers[swr.reg.a.id] = swr.old.registers[swr.reg.a.id]
    ELSE IF swr.reg.tag = "AccFlag" THEN registers[RegA] = swr.old.registers[RegA]
    ELSE IF swr.reg.tag = "StackPointer" THEN Hi(sp.n) = Hi(swr.old.sp.n)
    ELSE Hi(pc.n) = Hi(swr.old.pc.n)

C19_PointerIdentity ==
    /\ pc.tag = "ProgramCounter"
    /\ sp.tag = "StackPointer"
    /\ (last.op = "set_word" /\ last.name = "PC")
          => pc.n = last.value /\ sp = last.old.sp
    /\ (last.op = "set_word" /\ last.name = "SP")
          => sp.n = last.value /\ pc = last.old.pc

\* ---- instruction schema (SpecSchema) ----

\* The operand shapes the schema functions must refuse.
Illegal(c) ==
    \/ c.op \in ({"BIT_U3"} \cup ShiftOps) /\ c.arg.kind = "byte"
    \/ c.op \in RotateOps /\ (c.arg.kind = "byte" \/ (c.small /\ c.arg # OpRegister(RegA)))
Legal(c) == ~Illegal(c)

\* The size table of the specification.
TableTwo   == {"BIT_U3", "RES_U3_R8", "RES_U3_HL", "SET_U3_R8", "SET_U3_HL", "SLA", "SRA",
               "SRL", "SWAP_R8", "SWAP_HL", "LD_R8_U8", "LD_A_U8", "JR_I8", "JR_CC_I8",
               "LDH_A_U8", "LDH_U8_A", "ADD_SP_I8", "LD_HL_SP_I8", "LDH_HL_U8"}
TableThree == {"LDH_U16_A", "LDH_A_U16", "LD_R16_U16", "CALL_U16", "CALL_CC_U16", "JP_U16",
               "JP_CC_U16", "LD_U16_SP"}
TableSize(c) ==
    IF c.op \in AluOps THEN (IF c.arg.kind = "byte" THEN 2 ELSE 1)
    ELSE IF c.op \in RotateOps THEN (IF c.small THEN 1 ELSE 2)
    ELSE IF c.op \in TableTwo THEN 2
    ELSE IF c.op \in TableThree THEN 3
    ELSE 1

\* C8: for every legal command, Command::size is in {1,2,3} and is the size
\* the specification's table gives.
C8_SizeTable ==
    (Legal(cmd) /\ size_res.st # "none")
        => /\ size_res.st = "ok"
           /\ size_res.val \in {1, 2, 3}
           /\ size_res.val = TableSize(cmd)

\* C8 witness: sizes of all three lengths have been returned; here a rotate in
\* its CB-prefixed form.
C8_Witness ==
    /\ cmd.op \in RotateOps
    /\ cmd.arg = OpHL
    /\ ~cmd.small
    /\ size_res = Ok(2)

\* The two costs of the conditional forms: <<taken, untaken>>.
CondCost(op) ==
    IF op = "JR_CC_I8" THEN <<3, 2>>
    ELSE IF op = "JP_CC_U16" THEN <<4, 3>>
    ELSE IF op = "RET_CC" THEN <<5, 2>>
    ELSE <<6, 3>>

\* C9: Command::cycles depends on the branch argument for JR cc, JP cc, RET cc
\* and CALL cc alone, with costs 3/2, 4/3, 5/2, 6/3; for every other legal
\* command both arguments give the same cost; every cost lies in 1..6.
C9_BranchCost ==
    Legal(cmd) =>
        /\ \A b \in BOOLEAN :
              cycles_res[b].st # "none" =>
                 /\ cycles_res[b].st = "ok"
                 /\ cycles_res[b].val \in 1..6
                 /\ cmd.op \in CondOps =>
                       cycles_res[b].val = CondCost(cmd.op)[IF b THEN 1 ELSE 2]
        /\ (cmd.op \notin CondOps /\ \A b \in BOOLEAN : cycles_res[b].st # "none")
              => cycles_res[TRUE] = cycles_res[FALSE]

\* C9 witness: RET cc has been costed both ways.
C9_Witness ==
    /\ cmd.op = "RET_CC"
    /\ cycles_res[TRUE] = Ok(5)
    /\ cycles_res[FALSE] = Ok(2)

\* C10: for every command with an illegal operand shape, both Command::size
\* and Command::cycles end in a panic.
C10_IllegalPanics ==
    Illegal(cmd) =>
        /\ size_res.st # "none" => size_res.st = "panic"
        /\ \A b \in BOOLEAN : cycles_res[b].st # "none" => cycles_res[b].st = "panic"

====
